---- MODULE Spec2Model ----
(***************************************************************************)
(* Model of adapter-matrix: the outbox poller (internal/consumer), the     *)
(* claim store (internal/repository), the Matrix client (internal/matrix)  *)
(* and the tasks started by the application (internal/app).                *)
(*                                                                         *)
(* One "process" is one running instance of the application: one poll      *)
(* loop, one membership-sync task and one in-memory joined-room set.  All  *)
(* processes share the database (outbox tables, adapter_event_state,       *)
(* adapter_outbox).  Every database statement and every platform call is   *)
(* one atomic step; local computation is folded into the next such step.   *)
(***************************************************************************)
EXTENDS Integers, Sequences, FiniteSets, TLC

\* ------------------------------------------------------------------ bounds
\* Largest configured MAX_RETRIES explored.
MaxRetriesCfg == 2
\* Largest configured OUTBOX_BATCH_SIZE explored.
MaxBatchCfg == 2
\* Number of database statements that may fail with a store error.
MaxStoreFaults == 1
\* Number of membership events the platform pushes to each process.
MaxMemberEvents == 1
\* Number of DeliveryFailed rows after which no further one is inserted.
MaxEmitted == 3

\* --------------------------------------------------------------- constants
statusPending == "pending"
statusSent == "sent"
statusFailed == "failed"

NULL == "NULL"
Nil == "nil"

\* The application processes that may poll the same database.
Procs == {"p1", "p2"}

\* Rooms: "!a" is the room an operator may allow-list, "!s" is a room the
\* session already belongs to on the platform, "!x" is neither.
Rooms == {"!a", "!s", "!x"}
\* What the platform's JoinedRooms call returns.
PlatformJoined == {"!s"}
\* The session's own identity and somebody else's.
UserID == "@bot:hs"
OtherUser == "@eve:hs"

\* ------------------------------------------------------------------ strings
\* strings.TrimSpace on the strings that occur in the modelled payloads.
TrimSpace(s) ==
    CASE s = " " -> ""
      [] s = " HTML " -> "HTML"
      [] s = " latex" -> "latex"
      [] s = " TimetableUpdated " -> "TimetableUpdated"
      [] OTHER -> s

\* strings.ToLower on the strings that occur in the modelled payloads.
ToLower(s) ==
    CASE s = "HTML" -> "html"
      [] s = " HTML " -> " html "
      [] OTHER -> s

\* ----------------------------------------------------------------- payloads
\* A payload is the decoded JSON document: wellformed is FALSE when the
\* column is not valid JSON, generic_ok is FALSE when json.Unmarshal into
\* MessagePayload fails (a key of the wrong type, or invalid JSON); an absent
\* key decodes to "".
EmptyPayload ==
    [wellformed |-> TRUE, generic_ok |-> TRUE, room_id |-> "", body |-> "", format |-> "",
     matrix_room_id |-> "", template |-> "", update_template |-> "",
     original_event_id |-> 0]

GenericPayload(room, body, format) ==
    [EmptyPayload EXCEPT !.room_id = room, !.body = body, !.format = format]

AnnouncedPayload(room, template) ==
    [EmptyPayload EXCEPT !.matrix_room_id = room, !.template = template]

UpdatedPayload(room, template) ==
    [EmptyPayload EXCEPT !.matrix_room_id = room, !.update_template = template]

\* events.DeliveryFailed marshalled by EmitDeliveryFailed.
DeliveryFailedPayload(orig) ==
    [EmptyPayload EXCEPT !.original_event_id = orig]

MessagePayload(room, body, format) ==
    [RoomID |-> room, Body |-> body, Format |-> format]

\* renderTimetableMessage for a payload without date and without slots: the
\* title line alone (strings.Join of one line).
renderTimetableMessage(templateText) ==
    IF TrimSpace(templateText) = "" THEN "Timetable update"
    ELSE TrimSpace(templateText)

\* decodeEventPayload that looks at event_type first: the generic shape is
\* used for the other event types only.
decodeEventPayloadTypeFirst(eventType, p) ==
    CASE TrimSpace(eventType) = "DailyTimetableAnnounced" ->
             IF ~p.wellformed
             THEN [err |-> "invalid json", msg |-> MessagePayload("", "", "")]
             ELSE IF TrimSpace(p.matrix_room_id) = ""
             THEN [err |-> "daily announcement missing matrix_room_id",
                   msg |-> MessagePayload("", "", "")]
             ELSE [err |-> Nil,
                   msg |-> MessagePayload(p.matrix_room_id,
                                          renderTimetableMessage(p.template),
                                          "markdown")]
      [] TrimSpace(eventType) = "TimetableUpdated" ->
             IF ~p.wellformed
             THEN [err |-> "invalid json", msg |-> MessagePayload("", "", "")]
             ELSE IF TrimSpace(p.matrix_room_id) = ""
             THEN [err |-> "timetable update missing matrix_room_id",
                   msg |-> MessagePayload("", "", "")]
             ELSE [err |-> Nil,
                   msg |-> MessagePayload(p.matrix_room_id,
                                          renderTimetableMessage(p.update_template),
                                          "markdown")]
      [] OTHER ->
             IF p.generic_ok /\ (TrimSpace(p.room_id) # "" \/ TrimSpace(p.body) # "")
             THEN [err |-> Nil, msg |-> MessagePayload(p.room_id, p.body, p.format)]
             ELSE [err |-> "unsupported event payload",
                   msg |-> MessagePayload("", "", "")]

\* decodeEventPayload: generic shape first, then the switch on event_type.
decodeEventPayload(eventType, p) ==
    IF p.generic_ok /\ (TrimSpace(p.room_id) # "" \/ TrimSpace(p.body) # "")
    THEN [err |-> Nil, msg |-> MessagePayload(p.room_id, p.body, p.format)]
    ELSE CASE TrimSpace(eventType) = "DailyTimetableAnnounced" ->
                IF ~p.wellformed
                THEN [err |-> "invalid json", msg |-> MessagePayload("", "", "")]
                ELSE IF TrimSpace(p.matrix_room_id) = ""
                THEN [err |-> "daily announcement missing matrix_room_id",
                      msg |-> MessagePayload("", "", "")]
                ELSE [err |-> Nil,
                      msg |-> MessagePayload(p.matrix_room_id,
                                             renderTimetableMessage(p.template),
                                             "markdown")]
           [] TrimSpace(eventType) = "TimetableUpdated" ->
                IF ~p.wellformed
                THEN [err |-> "invalid json", msg |-> MessagePayload("", "", "")]
                ELSE IF TrimSpace(p.matrix_room_id) = ""
                THEN [err |-> "timetable update missing matrix_room_id",
                      msg |-> MessagePayload("", "", "")]
                ELSE [err |-> Nil,
                      msg |-> MessagePayload(p.matrix_room_id,
                                             renderTimetableMessage(p.update_template),
                                             "markdown")]
           [] OTHER ->
                [err |-> "unsupported event payload",
                 msg |-> MessagePayload("", "", "")]

\* transform without the check of the format against plain, markdown, html.
transformAnyFormat(eventType, p) ==
    LET d == decodeEventPayload(eventType, p)
        f == ToLower(TrimSpace(d.msg.Format))
        m == [d.msg EXCEPT !.Format = f]
    IN  IF d.err # Nil
        THEN [err |-> "payload decode", msg |-> d.msg]
        ELSE IF m.RoomID = "" \/ m.Body = "" \/ m.Format = ""
        THEN [err |-> "payload missing required fields", msg |-> m]
        ELSE [err |-> Nil, msg |-> m]

\* The part of processEvent before the claim: decode, normalise the format,
\* validate.  err is Nil when the message may be dispatched.
transform(eventType, p) ==
    LET d == decodeEventPayload(eventType, p)
        f == ToLower(TrimSpace(d.msg.Format))
        m == [d.msg EXCEPT !.Format = f]
    IN  IF d.err # Nil
        THEN [err |-> "payload decode", msg |-> d.msg]
        ELSE IF m.RoomID = "" \/ m.Body = "" \/ m.Format = ""
        THEN [err |-> "payload missing required fields", msg |-> m]
        ELSE IF m.Format # "plain" /\ m.Format # "markdown" /\ m.Format # "html"
        THEN [err |-> "unsupported payload format", msg |-> m]
        ELSE [err |-> Nil, msg |-> m]

\* ------------------------------------------------------------ outbox rows
OutboxRecord(id, eventType, payload) ==
    [id |-> id, event_type |-> eventType, payload |-> payload]

\* The producer-written rows the model draws from, by id.
Catalogue ==
    << OutboxRecord(1, "NoticePosted", GenericPayload("!a", "hello", " latex")),
       OutboxRecord(2, "NoticePosted", GenericPayload("!a", "hello", " HTML ")),
       OutboxRecord(3, "DailyTimetableAnnounced", AnnouncedPayload("!s", "Today")) >>

EventIds == 1..Len(Catalogue)

\* The tables the poll loop is configured with (OUTBOX_TABLES), in order.
OutboxTables == <<"outbox_a", "outbox_b">>

\* The table EmitDeliveryFailed inserts into (ADAPTER_OUTBOX_TABLE).
AdapterOutbox == "adapter_outbox"

\* OUTBOX_TABLES naming the adapter's own outbox as well.
CascadeTables == <<"outbox_a", AdapterOutbox>>

\* The ids a row of a polled table may have: the producers' rows and the
\* rows EmitDeliveryFailed inserted.
AllIds == 1..(Len(Catalogue) + MaxEmitted)

\* ------------------------------------------------------------------- state
VARIABLES
    outbox,               \* [table name -> rows ordered by id] (producer-written)
    adapter_outbox,       \* rows inserted by EmitDeliveryFailed, oldest first
    adapter_event_state,  \* the claim table: [event id -> row], a row per claimed id
    maxRetries,           \* OutboxConsumer.maxRetries
    batchSize,            \* OutboxConsumer.batchSize
    allowedRooms,         \* Client.allowedRooms
    running,              \* the processes that were started and have not ended
    outboxTables,         \* OutboxConsumer.outboxTables
    joinedRooms,          \* [process -> Client.joinedRooms]
    pc,                   \* [process -> position of its poll loop]
    tableIdx,             \* [process -> index into outboxTables of pollOnce's loop]
    batch,                \* [process -> rows returned by pollTable's query]
    rowIdx,               \* [process -> index in batch of the row being processed]
    attempts,             \* [process -> attempts returned by ClaimEvent]
    claimed,              \* [process -> claimed returned by ClaimEvent]
    sendErr,              \* [process -> error of transform or SendMessage, or Nil]
    pollErr,              \* [process -> error pollOnce returned to loop, or Nil]
    syncPc,               \* [process -> position of the membership-sync task]
    memberEventsLeft,     \* [process -> membership events still to be pushed]
    memberEvt,            \* [process -> the invite handleMemberEvent is joining for]
    ctxDone,              \* [process -> main's context is cancelled (SIGINT/SIGTERM)]
    stopCh,               \* [process -> OutboxConsumer.stopCh is closed]
    appPc,                \* [process -> position of main: running, signalled,
                          \*             waiting (in App.Stop), returned]
    stopErr,              \* [process -> what consumer.Stop returned to App.Stop]
    appRet,               \* [process -> what App.Stop returned to main]
    tIn,                  \* the event type and payload handed to the transform
    tOut,                 \* the results of the transform on tIn, oldest first
    repoIn,               \* the claim table, id, operation and error text handed
                          \* to the repository alone
    repoOut,              \* the result of that operation, once it has run
    faultsLeft,           \* store errors that may still happen
    claimLog,             \* history: [event id -> attempts returned by successful claims]
    sendCalls,            \* history: [event id -> number of SendMessage calls]
    delivered,            \* history: [event id -> number of messages the platform accepted]
    refused,              \* history: the event ids some ClaimEvent returned no row for
    processed             \* history: [process -> rows processEvent returned for in
                          \*           this cycle, each with the error it returned]

cfgVars == <<outbox, maxRetries, batchSize, allowedRooms, running, outboxTables>>
storeVars == <<adapter_outbox, adapter_event_state>>
pollVars == <<pc, tableIdx, batch, rowIdx, attempts, claimed, sendErr, pollErr>>
syncVars == <<syncPc, memberEventsLeft, memberEvt>>
lifeVars == <<ctxDone, stopCh, appPc, stopErr, appRet>>
xformVars == <<tIn, tOut, repoIn, repoOut>>
histVars == <<claimLog, sendCalls, delivered, refused, processed>>
vars == <<cfgVars, storeVars, pollVars, syncVars, histVars, lifeVars, xformVars,
          joinedRooms, faultsLeft>>

\* ------------------------------------------------------------- claim store
EventClaimState(a, s, e, t) ==
    [attempts |-> a, status |-> s, last_error |-> e, updated_at |-> t]

Terminal(st, id) ==
    id \in DOMAIN st /\ st[id].status \in {statusSent, statusFailed}

\* ClaimEvent without the WHERE clause: the conflict update applies to
\* terminal rows too.
ClaimEventUnguarded(st, id) ==
    IF id \notin DOMAIN st
    THEN [state |-> st @@ (id :> EventClaimState(1, statusPending, NULL, 1)),
          attempts |-> 1, claimed |-> TRUE]
    ELSE [state |-> [st EXCEPT ![id].attempts = @ + 1,
                               ![id].status = statusPending,
                               ![id].updated_at = @ + 1],
          attempts |-> st[id].attempts + 1, claimed |-> TRUE]

\* ClaimEvent whose conflict update leaves attempts as it is.
ClaimEventNoIncrement(st, id) ==
    IF id \notin DOMAIN st
    THEN [state |-> st @@ (id :> EventClaimState(1, statusPending, NULL, 1)),
          attempts |-> 1, claimed |-> TRUE]
    ELSE IF st[id].status \notin {statusSent, statusFailed}
    THEN [state |-> [st EXCEPT ![id].status = statusPending,
                               ![id].updated_at = @ + 1],
          attempts |-> st[id].attempts, claimed |-> TRUE]
    ELSE [state |-> st, attempts |-> 0, claimed |-> FALSE]

\* ClaimEvent whose WHERE clause excludes failed rows only: a sent row is
\* claimed again.
ClaimEventSkipsFailedOnly(st, id) ==
    IF id \notin DOMAIN st
    THEN [state |-> st @@ (id :> EventClaimState(1, statusPending, NULL, 1)),
          attempts |-> 1, claimed |-> TRUE]
    ELSE IF st[id].status # statusFailed
    THEN [state |-> [st EXCEPT ![id].attempts = @ + 1,
                               ![id].status = statusPending,
                               ![id].updated_at = @ + 1],
          attempts |-> st[id].attempts + 1, claimed |-> TRUE]
    ELSE [state |-> st, attempts |-> 0, claimed |-> FALSE]

\* ClaimEvent: INSERT ... ON CONFLICT DO UPDATE ... WHERE status NOT IN
\* (sent, failed) RETURNING attempts.  No row returned means claimed = FALSE.
\* updated_at is a logical time: each write to a row is later than the last.
ClaimEvent(st, id) ==
    IF id \notin DOMAIN st
    THEN [state |-> st @@ (id :> EventClaimState(1, statusPending, NULL, 1)),
          attempts |-> 1, claimed |-> TRUE]
    ELSE IF st[id].status \notin {statusSent, statusFailed}
    THEN [state |-> [st EXCEPT ![id].attempts = @ + 1,
                               ![id].status = statusPending,
                               ![id].updated_at = @ + 1],
          attempts |-> st[id].attempts + 1, claimed |-> TRUE]
    ELSE [state |-> st, attempts |-> 0, claimed |-> FALSE]

\* An outcome update that inserts the row when the id has none.
SetOutcomeUpsert(st, id, status, lastError) ==
    IF id \in DOMAIN st
    THEN [st EXCEPT ![id].status = status,
                    ![id].last_error = lastError,
                    ![id].updated_at = @ + 1]
    ELSE st @@ (id :> EventClaimState(0, status, lastError, 1))

\* The three outcome updates: UPDATE ... WHERE event_id = $1.
SetOutcome(st, id, status, lastError) ==
    IF id \in DOMAIN st
    THEN [st EXCEPT ![id].status = status,
                    ![id].last_error = lastError,
                    ![id].updated_at = @ + 1]
    ELSE st

MarkSent(st, id) == SetOutcome(st, id, statusSent, NULL)

\* MarkRetry that does not record the error.
MarkRetryDropsError(st, id, lastError) == SetOutcome(st, id, statusPending, NULL)

MarkRetry(st, id, lastError) == SetOutcome(st, id, statusPending, lastError)

\* MarkFailed writing the pending status instead of failed.
MarkFailedAsPending(st, id, lastError) == SetOutcome(st, id, statusPending, lastError)

MarkFailed(st, id, lastError) == SetOutcome(st, id, statusFailed, lastError)

\* EmitDeliveryFailed: INSERT INTO <adapter outbox> a DeliveryFailed row with
\* a fresh id (ids of emitted rows follow the producers' ids).
EmitDeliveryFailed(ao, originalEventID) ==
    Append(ao, OutboxRecord(Len(Catalogue) + Len(ao) + 1, "DeliveryFailed",
                            DeliveryFailedPayload(originalEventID)))

\* Outcomes of one database statement of process p: with the context
\* cancelled database/sql returns the context's error before it reaches the
\* database; otherwise a store error needs a fault left.
StoreResults(p) ==
    IF ctxDone[p] THEN {"ctx"}
    ELSE IF faultsLeft > 0 THEN {"ok", "err"} ELSE {"ok"}

\* The error a failed statement returns.
StoreErr(r) == IF r = "ctx" THEN "context canceled" ELSE "store"

UseFault(r) == faultsLeft' = IF r = "err" THEN faultsLeft - 1 ELSE faultsLeft

\* The context of the sync task (syncCtx) is cancelled with main's context
\* and by App.Stop's syncStop.
SyncCtxDone(p) == ctxDone[p] \/ appPc[p] \in {"waiting", "returned"}

\* Outcomes of one platform call of the poll loop: with the context
\* cancelled the request fails.
PlatformResults(p) == IF ctxDone[p] THEN {"err"} ELSE {"ok", "err"}

\* Outcomes of one platform call of the sync task.
SyncPlatformResults(p) == IF SyncCtxDone(p) THEN {"err"} ELSE {"ok", "err"}

\* ------------------------------------------------------------ matrix client
\* isAllowed taking an empty allow-list for "every room is allowed".
isAllowedWhenEmpty(roomID) ==
    IF Cardinality(allowedRooms) = 0 THEN TRUE ELSE roomID \in allowedRooms

isAllowed(roomID) ==
    IF Cardinality(allowedRooms) = 0 THEN FALSE ELSE roomID \in allowedRooms

isJoined(p, roomID) == roomID \in joinedRooms[p]

setJoined(p, roomID) ==
    joinedRooms' = [joinedRooms EXCEPT ![p] = @ \cup {roomID}]

\* A JoinRoom call that records the room whatever the platform answered.
JoinOutcomeAlwaysRecords(p, roomID, r) == setJoined(p, roomID)

\* What ensureJoined and handleMemberEvent do with JoinRoom's answer:
\* setJoined on success, nothing on an error.
JoinOutcome(p, roomID, r) ==
    IF r = "ok" THEN setJoined(p, roomID) ELSE UNCHANGED joinedRooms

\* -------------------------------------------------------------- poll loop
\* The rows of a polled table: a producer's table, or the adapter's own
\* outbox when OUTBOX_TABLES names it.
TableRows(t) == IF t = AdapterOutbox THEN adapter_outbox ELSE outbox[t]

CurRow(p) == batch[p][rowIdx[p]]

CurMsg(p) == transform(CurRow(p).event_type, CurRow(p).payload).msg

Take(rows, n) == SubSeq(rows, 1, IF Len(rows) < n THEN Len(rows) ELSE n)

\* The retry check with > in place of >=: one more attempt than configured.
FailurePcOneMore(att) == IF att > maxRetries THEN "markFailed" ELSE "markRetry"

\* Where a failed dispatch or transform goes: attempts >= maxRetries is
\* permanent (handlePermanentFailure), anything else is MarkRetry.
FailurePc(att) == IF att >= maxRetries THEN "markFailed" ELSE "markRetry"

\* pollOnce logging a failed query and going on with the next table.
AfterQueryErrorContinue == "next"

\* Where a failed batch query leads: pollTable returns the error, pollOnce
\* returns it at once, loop logs it and waits in its select.
AfterQueryError == "select"

\* pollTable's query: SELECT ... ORDER BY id LIMIT batchSize.  A query error
\* is returned through pollOnce to loop, which logs it and waits for the tick.
PollTable(p) ==
    /\ p \in running /\ pc[p] = "pollTable"
    /\ \E r \in StoreResults(p) :
         /\ UseFault(r)
         /\ IF r # "ok"
            THEN /\ pc' = [pc EXCEPT ![p] = AfterQueryError]
                 /\ pollErr' = [pollErr EXCEPT ![p] = "query"]
                 /\ UNCHANGED <<batch, rowIdx>>
            ELSE /\ batch' = [batch EXCEPT ![p] = Take(TableRows(outboxTables[tableIdx[p]]), batchSize)]
                 /\ rowIdx' = [rowIdx EXCEPT ![p] = 0]
                 /\ pc' = [pc EXCEPT ![p] = "next"]
                 /\ UNCHANGED pollErr
    /\ UNCHANGED <<cfgVars, lifeVars, xformVars, storeVars, tableIdx, attempts, claimed, sendErr,
                   syncVars, histVars, joinedRooms>>

\* What rows.Next() may do: once the context is cancelled database/sql closes
\* the rows from another goroutine, so Next returns false now or later.
RowsResults(p) == IF ctxDone[p] THEN {"row", "closed"} ELSE {"row"}

\* rows.Next() and the loops around it: the next row of the batch, or the
\* next table, or the end of pollOnce; closed rows make rows.Err() the
\* context's error, which pollTable and pollOnce return.
NextRow(p) ==
    /\ p \in running /\ pc[p] = "next"
    /\ \E r \in RowsResults(p) :
         IF r = "closed"
         THEN /\ pc' = [pc EXCEPT ![p] = "select"]
              /\ pollErr' = [pollErr EXCEPT ![p] = "rows"]
              /\ UNCHANGED <<rowIdx, tableIdx>>
         ELSE /\ IF rowIdx[p] < Len(batch[p])
                 THEN /\ rowIdx' = [rowIdx EXCEPT ![p] = @ + 1]
                      /\ pc' = [pc EXCEPT ![p] = "process"]
                      /\ UNCHANGED tableIdx
                 ELSE /\ IF tableIdx[p] < Len(outboxTables)
                         THEN /\ tableIdx' = [tableIdx EXCEPT ![p] = @ + 1]
                              /\ pc' = [pc EXCEPT ![p] = "pollTable"]
                         ELSE /\ pc' = [pc EXCEPT ![p] = "select"]
                              /\ UNCHANGED tableIdx
                      /\ UNCHANGED rowIdx
              /\ UNCHANGED pollErr
    /\ UNCHANGED <<cfgVars, lifeVars, xformVars, storeVars, batch, attempts, claimed, sendErr,
                   syncVars, histVars, joinedRooms, faultsLeft>>

\* pollTable returning the error of processEvent instead of logging it: the
\* rest of the batch and the later tables are skipped.
AfterEventAbort(err) == IF err # Nil THEN "select" ELSE "next"

\* What pollTable does with the error processEvent returned: it logs it and
\* goes on to rows.Next().
AfterEvent(err) == "next"

\* processEvent returns err for the current row; its locals go out of scope.
FinishRow(p, err) ==
    /\ pc' = [pc EXCEPT ![p] = AfterEvent(err)]
    /\ processed' = [processed EXCEPT ![p] = Append(@, [id |-> CurRow(p).id, err |-> err])]
    /\ attempts' = [attempts EXCEPT ![p] = 0]
    /\ claimed' = [claimed EXCEPT ![p] = FALSE]
    /\ sendErr' = [sendErr EXCEPT ![p] = Nil]

\* processEvent up to the claim: transform, then ClaimEvent, directly or
\* through handleFailure when the transform failed.
Process(p) ==
    /\ p \in running /\ pc[p] = "process"
    /\ LET row == CurRow(p)
           t == transform(row.event_type, row.payload)
       IN \E r \in StoreResults(p) :
            /\ UseFault(r)
            /\ IF r # "ok"
               THEN /\ FinishRow(p, StoreErr(r))
                    /\ UNCHANGED <<adapter_event_state, claimLog, refused>>
               ELSE LET c == ClaimEvent(adapter_event_state, row.id)
                    IN /\ adapter_event_state' = c.state
                       /\ IF ~c.claimed
                          THEN /\ FinishRow(p, Nil)
                               /\ refused' = refused \cup {row.id}
                               /\ UNCHANGED claimLog
                          ELSE /\ claimLog' = [claimLog EXCEPT ![row.id] = Append(@, c.attempts)]
                               /\ UNCHANGED refused
                               /\ attempts' = [attempts EXCEPT ![p] = c.attempts]
                               /\ claimed' = [claimed EXCEPT ![p] = TRUE]
                               /\ sendErr' = [sendErr EXCEPT ![p] = t.err]
                               /\ pc' = [pc EXCEPT ![p] =
                                           IF t.err # Nil THEN FailurePc(c.attempts)
                                           ELSE "ensureJoined"]
                               /\ UNCHANGED processed
    /\ UNCHANGED <<cfgVars, lifeVars, xformVars, adapter_outbox, tableIdx, batch, rowIdx, pollErr,
                   syncVars, sendCalls, delivered, joinedRooms>>

\* SendMessage up to the join: the room id check and ensureJoined's two tests.
EnsureJoined(p) ==
    /\ p \in running /\ pc[p] = "ensureJoined"
    /\ LET roomID == CurMsg(p).RoomID
           e == IF roomID = "" THEN "room ID is required"
                ELSE IF isJoined(p, roomID) THEN Nil
                ELSE IF ~isAllowed(roomID) THEN "room is not allow-listed"
                ELSE Nil
       IN /\ sendCalls' = [sendCalls EXCEPT ![CurRow(p).id] = @ + 1]
          /\ sendErr' = [sendErr EXCEPT ![p] = e]
          /\ pc' = [pc EXCEPT ![p] =
                      IF e # Nil THEN FailurePc(attempts[p])
                      ELSE IF isJoined(p, roomID) THEN "sendEvent"
                      ELSE "join"]
    /\ UNCHANGED <<cfgVars, lifeVars, xformVars, storeVars, tableIdx, batch, rowIdx, attempts, claimed, pollErr,
                   syncVars, claimLog, delivered, refused, processed, joinedRooms, faultsLeft>>

\* ensureJoined's JoinRoom call and, when it succeeds, setJoined.
JoinRoom(p) ==
    /\ p \in running /\ pc[p] = "join"
    /\ \E r \in PlatformResults(p) :
         /\ JoinOutcome(p, CurMsg(p).RoomID, r)
         /\ IF r = "ok"
            THEN /\ pc' = [pc EXCEPT ![p] = "sendEvent"]
                 /\ UNCHANGED sendErr
            ELSE /\ sendErr' = [sendErr EXCEPT ![p] = "join failed"]
                 /\ pc' = [pc EXCEPT ![p] = FailurePc(attempts[p])]
    /\ UNCHANGED <<cfgVars, lifeVars, xformVars, storeVars, tableIdx, batch, rowIdx, attempts, claimed, pollErr,
                   syncVars, histVars, faultsLeft>>

\* SendMessage's SendMessageEvent call.
SendMessageEvent(p) ==
    /\ p \in running /\ pc[p] = "sendEvent"
    /\ \E r \in PlatformResults(p) :
         IF r = "ok"
         THEN /\ delivered' = [delivered EXCEPT ![CurRow(p).id] = @ + 1]
              /\ pc' = [pc EXCEPT ![p] = "markSent"]
              /\ UNCHANGED sendErr
         ELSE /\ sendErr' = [sendErr EXCEPT ![p] = "send rejected"]
              /\ pc' = [pc EXCEPT ![p] = FailurePc(attempts[p])]
              /\ UNCHANGED delivered
    /\ UNCHANGED <<cfgVars, lifeVars, xformVars, storeVars, tableIdx, batch, rowIdx, attempts, claimed, pollErr,
                   syncVars, claimLog, sendCalls, refused, processed, joinedRooms, faultsLeft>>

\* processEvent's last statement after a successful send: repo.MarkSent.
DoMarkSent(p) ==
    /\ p \in running /\ pc[p] = "markSent"
    /\ \E r \in StoreResults(p) :
         /\ UseFault(r)
         /\ IF r # "ok"
            THEN /\ FinishRow(p, StoreErr(r))
                 /\ UNCHANGED adapter_event_state
            ELSE /\ adapter_event_state' = MarkSent(adapter_event_state, CurRow(p).id)
                 /\ FinishRow(p, Nil)
    /\ UNCHANGED <<cfgVars, lifeVars, xformVars, adapter_outbox, tableIdx, batch, rowIdx,
                   pollErr, syncVars, claimLog, sendCalls, delivered, refused, joinedRooms>>

\* repo.MarkRetry after a failure below the retry budget.
DoMarkRetry(p) ==
    /\ p \in running /\ pc[p] = "markRetry"
    /\ \E r \in StoreResults(p) :
         /\ UseFault(r)
         /\ IF r # "ok"
            THEN /\ FinishRow(p, StoreErr(r))
                 /\ UNCHANGED adapter_event_state
            ELSE /\ adapter_event_state' = MarkRetry(adapter_event_state, CurRow(p).id, sendErr[p])
                 /\ FinishRow(p, Nil)
    /\ UNCHANGED <<cfgVars, lifeVars, xformVars, adapter_outbox, tableIdx, batch, rowIdx,
                   pollErr, syncVars, claimLog, sendCalls, delivered, refused, joinedRooms>>

\* handlePermanentFailure's first statement: repo.MarkFailed.
DoMarkFailed(p) ==
    /\ p \in running /\ pc[p] = "markFailed"
    /\ \E r \in StoreResults(p) :
         /\ UseFault(r)
         /\ IF r # "ok"
            THEN /\ FinishRow(p, StoreErr(r))
                 /\ UNCHANGED adapter_event_state
            ELSE /\ adapter_event_state' = MarkFailed(adapter_event_state, CurRow(p).id, sendErr[p])
                 /\ pc' = [pc EXCEPT ![p] = "emit"]
                 /\ UNCHANGED <<processed, attempts, claimed, sendErr>>
    /\ UNCHANGED <<cfgVars, lifeVars, xformVars, adapter_outbox, tableIdx, batch, rowIdx,
                   pollErr, syncVars, claimLog, sendCalls, delivered, refused, joinedRooms>>

\* handlePermanentFailure's second statement: repo.EmitDeliveryFailed.
DoEmitDeliveryFailed(p) ==
    /\ p \in running /\ pc[p] = "emit"
    /\ Len(adapter_outbox) < MaxEmitted
    /\ \E r \in StoreResults(p) :
         /\ UseFault(r)
         /\ IF r # "ok"
            THEN /\ FinishRow(p, StoreErr(r))
                 /\ UNCHANGED adapter_outbox
            ELSE /\ adapter_outbox' = EmitDeliveryFailed(adapter_outbox, CurRow(p).id)
                 /\ FinishRow(p, Nil)
    /\ UNCHANGED <<cfgVars, lifeVars, xformVars, adapter_event_state, tableIdx, batch, rowIdx,
                   pollErr, syncVars, claimLog, sendCalls, delivered, refused, joinedRooms>>

\* loop's select: the ticker fires and the next pollOnce starts.
Tick(p) ==
    /\ p \in running /\ pc[p] = "select"
    /\ pc' = [pc EXCEPT ![p] = "pollTable"]
    /\ tableIdx' = [tableIdx EXCEPT ![p] = 1]
    /\ batch' = [batch EXCEPT ![p] = <<>>]
    /\ rowIdx' = [rowIdx EXCEPT ![p] = 0]
    /\ attempts' = [attempts EXCEPT ![p] = 0]
    /\ claimed' = [claimed EXCEPT ![p] = FALSE]
    /\ sendErr' = [sendErr EXCEPT ![p] = Nil]
    /\ pollErr' = [pollErr EXCEPT ![p] = Nil]
    /\ processed' = [processed EXCEPT ![p] = <<>>]
    /\ UNCHANGED <<cfgVars, lifeVars, xformVars, storeVars, syncVars, claimLog, sendCalls, delivered, refused,
                   joinedRooms, faultsLeft>>

\* ------------------------------------------------------- membership sync
\* StartSync's first statement: loadJoinedRooms.  When the platform call
\* fails StartSync returns and the task ends.
LoadJoinedRooms(p) ==
    /\ p \in running /\ syncPc[p] = "load"
    /\ \E r \in SyncPlatformResults(p) :
         IF r = "ok"
         THEN /\ joinedRooms' = [joinedRooms EXCEPT ![p] = @ \cup PlatformJoined]
              /\ syncPc' = [syncPc EXCEPT ![p] = "sync"]
         ELSE /\ syncPc' = [syncPc EXCEPT ![p] = "stopped"]
              /\ UNCHANGED joinedRooms
    /\ UNCHANGED <<cfgVars, lifeVars, xformVars, storeVars, pollVars, memberEventsLeft,
                   memberEvt, histVars, faultsLeft>>

\* The membership events the platform may push.
MemberEvents ==
    [room : {"!a", "!x"}, membership : {"invite", "leave"}, state_key : {UserID, OtherUser}]

\* No invite is being handled.
NoMemberEvent == [room |-> "", membership |-> "", state_key |-> ""]

\* handleMemberEvent without the test of the membership: any membership
\* event for this session in an allow-listed room leads to a join.
handleMemberEventAnyMembership(p, evt) ==
    IF evt.state_key # UserID \/ ~isAllowed(evt.room)
    THEN UNCHANGED <<syncPc, memberEvt>>
    ELSE /\ syncPc' = [syncPc EXCEPT ![p] = "join"]
         /\ memberEvt' = [memberEvt EXCEPT ![p] = evt]

\* handleMemberEvent up to its JoinRoom call: it returns at once unless the
\* event is an invite for this session in an allow-listed room.
handleMemberEvent(p, evt) ==
    IF evt.state_key # UserID \/ evt.membership # "invite" \/ ~isAllowed(evt.room)
    THEN UNCHANGED <<syncPc, memberEvt>>
    ELSE /\ syncPc' = [syncPc EXCEPT ![p] = "join"]
         /\ memberEvt' = [memberEvt EXCEPT ![p] = evt]

\* The syncer delivers one membership event to the callback.
MemberEvent(p) ==
    /\ p \in running /\ syncPc[p] = "sync" /\ memberEventsLeft[p] > 0
    /\ memberEventsLeft' = [memberEventsLeft EXCEPT ![p] = @ - 1]
    /\ \E evt \in MemberEvents : handleMemberEvent(p, evt)
    /\ UNCHANGED <<cfgVars, lifeVars, xformVars, storeVars, pollVars, histVars,
                   joinedRooms, faultsLeft>>

\* handleMemberEvent's JoinRoom call: setJoined when it succeeds; when it
\* fails the handler goes on to its log line.
MemberJoin(p) ==
    /\ p \in running /\ syncPc[p] = "join"
    /\ \E r \in SyncPlatformResults(p) :
         /\ JoinOutcome(p, memberEvt[p].room, r)
         /\ IF r = "ok"
            THEN /\ syncPc' = [syncPc EXCEPT ![p] = "sync"]
                 /\ memberEvt' = [memberEvt EXCEPT ![p] = NoMemberEvent]
            ELSE /\ syncPc' = [syncPc EXCEPT ![p] = "joinFailed"]
                 /\ UNCHANGED memberEvt
    /\ UNCHANGED <<cfgVars, lifeVars, xformVars, storeVars, pollVars, memberEventsLeft,
                   histVars, faultsLeft>>

\* handleMemberEvent after a failed JoinRoom: it logs the error and returns.
MemberJoinFailed(p) ==
    /\ p \in running /\ syncPc[p] = "joinFailed"
    /\ syncPc' = [syncPc EXCEPT ![p] = "sync"]
    /\ memberEvt' = [memberEvt EXCEPT ![p] = NoMemberEvent]
    /\ UNCHANGED <<cfgVars, lifeVars, xformVars, storeVars, pollVars, memberEventsLeft,
                   histVars, joinedRooms, faultsLeft>>

\* ---------------------------------------------------------------- shutdown
\* main: SIGINT or SIGTERM cancels the context that Start handed to the poll
\* loop and, through syncCtx, to the sync task; main goes on to App.Stop.
SignalReceived(p) ==
    /\ p \in running /\ appPc[p] = "running"
    /\ ctxDone' = [ctxDone EXCEPT ![p] = TRUE]
    /\ appPc' = [appPc EXCEPT ![p] = "signalled"]
    /\ UNCHANGED <<cfgVars, xformVars, storeVars, pollVars, syncVars, histVars,
                   stopCh, stopErr, appRet, joinedRooms, faultsLeft>>

\* App.Stop up to the wait in consumer.Stop: syncStop(), then stopCh is
\* closed and a goroutine waits for the poll loop.
AppStop(p) ==
    /\ p \in running /\ appPc[p] = "signalled"
    /\ stopCh' = [stopCh EXCEPT ![p] = TRUE]
    /\ appPc' = [appPc EXCEPT ![p] = "waiting"]
    /\ UNCHANGED <<cfgVars, xformVars, storeVars, pollVars, syncVars, histVars,
                   ctxDone, stopErr, appRet, joinedRooms, faultsLeft>>

\* What consumer.Stop's select may receive: the wait group is done once the
\* poll loop has returned; the shutdown context's deadline may pass.
WaitResults(p) == (IF pc[p] = "stopped" THEN {"done"} ELSE {}) \cup {"deadline"}

\* What db.Close may return.
CloseResults == {"ok", "err"}

\* The rest of App.Stop: consumer.Stop returns nil or the context's error,
\* App.Stop logs that error, closes the database and returns what Close
\* returned.  main returns after it and the process ends: it is no longer
\* running and none of its tasks takes another step.
StopReturns(p) ==
    /\ p \in running /\ appPc[p] = "waiting"
    /\ \E w \in WaitResults(p), c \in CloseResults :
         /\ stopErr' = [stopErr EXCEPT ![p] =
                          IF w = "done" THEN Nil ELSE "context deadline exceeded"]
         /\ appRet' = [appRet EXCEPT ![p] = IF c = "ok" THEN Nil ELSE "close failed"]
    /\ appPc' = [appPc EXCEPT ![p] = "returned"]
    /\ running' = running \ {p}
    /\ UNCHANGED <<outbox, maxRetries, batchSize, allowedRooms, outboxTables, xformVars, storeVars,
                   pollVars, syncVars, histVars, ctxDone, stopCh, joinedRooms, faultsLeft>>

\* loop's select receives from ctx.Done() or stopCh and loop returns.
LoopExit(p) ==
    /\ p \in running /\ pc[p] = "select"
    /\ ctxDone[p] \/ stopCh[p]
    /\ pc' = [pc EXCEPT ![p] = "stopped"]
    /\ UNCHANGED <<cfgVars, lifeVars, xformVars, storeVars, tableIdx, batch, rowIdx,
                   attempts, claimed, sendErr, pollErr, syncVars, histVars,
                   joinedRooms, faultsLeft>>

\* SyncWithContext returns once syncCtx is cancelled and StartSync returns.
SyncExit(p) ==
    /\ p \in running /\ syncPc[p] = "sync"
    /\ SyncCtxDone(p)
    /\ syncPc' = [syncPc EXCEPT ![p] = "stopped"]
    /\ UNCHANGED <<cfgVars, lifeVars, xformVars, storeVars, pollVars, memberEventsLeft,
                   memberEvt, histVars, joinedRooms, faultsLeft>>

\* ---------------------------------------------------------------- transform
\* The event types handed to the transform alone.
EventTypeInputs ==
    {"DailyTimetableAnnounced", " TimetableUpdated ", "NoticePosted", "DeliveryFailed"}

\* The payloads handed to the transform alone: every combination of blank,
\* whitespace and set fields; a payload that is not JSON decodes as nothing.
PayloadInputs ==
    {p \in [wellformed : BOOLEAN, generic_ok : BOOLEAN,
            room_id : {"", " ", "!a"}, body : {"", " ", "hello"},
            format : {"", "plain", " HTML ", " latex"},
            matrix_room_id : {"", "!s"}, template : {"", "Today"},
            update_template : {"", "Moved"}, original_event_id : {0}] :
        p.generic_ok => p.wellformed}

NoInput == [event_type |-> "", payload |-> EmptyPayload]

\* processEvent's decode and validation applied to tIn.
ApplyTransform ==
    /\ Len(tOut) < 2
    /\ tOut' = Append(tOut, transform(tIn.event_type, tIn.payload))
    /\ UNCHANGED <<cfgVars, lifeVars, storeVars, pollVars, syncVars, histVars,
                   tIn, repoIn, repoOut, joinedRooms, faultsLeft>>

\* ---------------------------------------------------------------- repository
\* The claim rows handed to the repository alone.
RowInputs ==
    [attempts : 1..MaxRetriesCfg, status : {statusPending, statusSent, statusFailed},
     last_error : {NULL, "old error"}, updated_at : {3}]

\* The claim tables handed to the repository alone: any of the ids 1 and 2
\* may have a row or not.
StoreInputs == UNION {[D -> RowInputs] : D \in SUBSET {1, 2}}

RepoOps == {"ClaimEvent", "MarkSent", "MarkRetry", "MarkFailed"}

NoRepoInput == [st |-> <<>>, id |-> 1, op |-> "ClaimEvent", text |-> ""]

\* One repository method on a claim table; the outcome updates return
\* nothing but an error.
RepoCall(in) ==
    CASE in.op = "ClaimEvent" -> ClaimEvent(in.st, in.id)
      [] in.op = "MarkSent" ->
            [state |-> MarkSent(in.st, in.id), attempts |-> 0, claimed |-> FALSE]
      [] in.op = "MarkRetry" ->
            [state |-> MarkRetry(in.st, in.id, in.text), attempts |-> 0, claimed |-> FALSE]
      [] in.op = "MarkFailed" ->
            [state |-> MarkFailed(in.st, in.id, in.text), attempts |-> 0, claimed |-> FALSE]

\* The repository method of repoIn runs on the table of repoIn.
ApplyRepository ==
    /\ repoOut = <<>>
    /\ repoOut' = <<RepoCall(repoIn)>>
    /\ UNCHANGED <<cfgVars, lifeVars, storeVars, pollVars, syncVars, histVars,
                   tIn, tOut, repoIn, joinedRooms, faultsLeft>>

\* ------------------------------------------------------------ specification
\* The rows the producers wrote, per table: ids ascending within a table.
Outbox(a, b) == [outbox_a |-> a, outbox_b |-> b]

\* All three rows: two in the first table, one in the second.
FullOutbox == Outbox(SubSeq(Catalogue, 1, 2), SubSeq(Catalogue, 3, 3))

\* One deliverable row in the first table, none in the second.
SmallOutbox == Outbox(SubSeq(Catalogue, 2, 2), <<>>)

\* The state right after App.Start: every started process has its poll loop
\* at the first pollOnce and its sync task before loadJoinedRooms.
InitBase(outboxes, procSets, faults, memberEvents) ==
    /\ outbox \in outboxes
    /\ adapter_outbox = <<>>
    /\ adapter_event_state = <<>>
    /\ maxRetries \in 1..MaxRetriesCfg
    /\ batchSize \in 1..MaxBatchCfg
    /\ allowedRooms \in {{}, {"!a"}}
    /\ running \in procSets
    /\ joinedRooms = [p \in Procs |-> {}]
    /\ pc = [p \in Procs |-> "pollTable"]
    /\ tableIdx = [p \in Procs |-> 1]
    /\ batch = [p \in Procs |-> <<>>]
    /\ rowIdx = [p \in Procs |-> 0]
    /\ attempts = [p \in Procs |-> 0]
    /\ claimed = [p \in Procs |-> FALSE]
    /\ sendErr = [p \in Procs |-> Nil]
    /\ pollErr = [p \in Procs |-> Nil]
    /\ syncPc = [p \in Procs |-> "load"]
    /\ memberEventsLeft \in [Procs -> memberEvents]
    /\ faultsLeft \in faults
    /\ claimLog = [e \in AllIds |-> <<>>]
    /\ sendCalls = [e \in AllIds |-> 0]
    /\ delivered = [e \in AllIds |-> 0]
    /\ refused = {}
    /\ processed = [p \in Procs |-> <<>>]
    /\ memberEvt = [p \in Procs |-> NoMemberEvent]
    /\ ctxDone = [p \in Procs |-> FALSE]
    /\ stopCh = [p \in Procs |-> FALSE]
    /\ appPc = [p \in Procs |-> "running"]
    /\ stopErr = [p \in Procs |-> Nil]
    /\ appRet = [p \in Procs |-> "none"]
    /\ tOut = <<>>
    /\ repoOut = <<>>

\* The application as started, with nothing handed to the transform alone.
InitWith(outboxes, procSets, faults, memberEvents) ==
    /\ InitBase(outboxes, procSets, faults, memberEvents)
    /\ outboxTables = OutboxTables
    /\ tIn = NoInput
    /\ repoIn = NoRepoInput

\* One application process, all rows, store errors possible.
Init == InitWith({FullOutbox}, {{"p1"}}, 0..MaxStoreFaults, {MaxMemberEvents})

\* One application process and a store that never fails.
InitSingle == InitWith({FullOutbox}, {{"p1"}}, {0}, {MaxMemberEvents})

\* Two application processes polling the same row, and a store that never
\* fails.  With one row every batch size gives the same batches, and each
\* process gets one membership event.
InitConcurrent ==
    /\ InitWith({SmallOutbox}, {Procs}, {0}, {1})
    /\ batchSize = MaxBatchCfg

PollerStep(p) ==
    \/ PollTable(p)
    \/ NextRow(p)
    \/ Process(p)
    \/ EnsureJoined(p)
    \/ JoinRoom(p)
    \/ SendMessageEvent(p)
    \/ DoMarkSent(p)
    \/ DoMarkRetry(p)
    \/ DoMarkFailed(p)
    \/ DoEmitDeliveryFailed(p)
    \/ Tick(p)

SyncStep(p) ==
    \/ LoadJoinedRooms(p)
    \/ MemberEvent(p)
    \/ MemberJoin(p)
    \/ MemberJoinFailed(p)

Next == \E p \in Procs : PollerStep(p) \/ SyncStep(p)

Spec == Init /\ [][Next]_vars

SpecSingle == InitSingle /\ [][Next]_vars

SpecConcurrent == InitConcurrent /\ [][Next]_vars

\* One application process with a store that never fails, and the signal
\* that ends it.
InitShutdown == InitWith({FullOutbox}, {{"p1"}}, {0}, {MaxMemberEvents})

LifeStep(p) ==
    \/ SignalReceived(p)
    \/ AppStop(p)
    \/ StopReturns(p)
    \/ LoopExit(p)
    \/ SyncExit(p)

NextShutdown == \E p \in Procs : PollerStep(p) \/ SyncStep(p) \/ LifeStep(p)

SpecShutdown == InitShutdown /\ [][NextShutdown]_vars

\* One application process whose OUTBOX_TABLES names the adapter's own
\* outbox after a producer's table, and a store that never fails.
InitCascade ==
    /\ InitBase({SmallOutbox}, {{"p1"}}, {0}, {MaxMemberEvents})
    /\ outboxTables = CascadeTables
    /\ tIn = NoInput
    /\ repoIn = NoRepoInput

SpecCascade == InitCascade /\ [][Next]_vars

\* The transform alone, on every input of the bounded sets.
InitTransform ==
    /\ InitBase({SmallOutbox}, {{}}, {0}, {0})
    /\ outboxTables = OutboxTables
    /\ tIn \in [event_type : EventTypeInputs, payload : PayloadInputs]
    /\ repoIn = NoRepoInput

SpecTransform == InitTransform /\ [][ApplyTransform]_vars

\* The repository alone, on every input of the bounded sets.
InitRepository ==
    /\ InitBase({SmallOutbox}, {{}}, {0}, {0})
    /\ outboxTables = OutboxTables
    /\ tIn = NoInput
    /\ repoIn \in [st : StoreInputs, id : {1, 2}, op : RepoOps, text : {"send rejected"}]

SpecRepository == InitRepository /\ [][ApplyRepository]_vars

\* The poll loop of a started process keeps running: loop has no exit but
\* cancellation, and every database and platform call returns.
FairSpec == InitSingle /\ [][Next]_vars /\ \A p \in Procs : WF_vars(PollerStep(p))

\* The fair poll loop with a store that may fail.
FairFaultSpec == Init /\ [][Next]_vars /\ \A p \in Procs : WF_vars(PollerStep(p))

\* ------------------------------------------------------------ properties
\* The process holds a claim whose outcome it has not recorded yet.
InProgress(p) ==
    /\ p \in running
    /\ pc[p] \in {"ensureJoined", "join", "sendEvent", "markSent", "markRetry", "markFailed"}

\* The DeliveryFailed rows emitted for an event id.
Emitted(e) ==
    Cardinality({i \in 1..Len(adapter_outbox) :
                    adapter_outbox[i].payload.original_event_id = e})

\* Some process is between the claim of e and the end of processEvent.
Busy(e) ==
    \E p \in running : pc[p] \notin {"pollTable", "next", "process", "select"}
                       /\ CurRow(p).id = e

StatusOf(e) ==
    IF e \in DOMAIN adapter_event_state THEN adapter_event_state[e].status ELSE "absent"

\* The transform result of a catalogue row.
TransformErr(e) == transform(Catalogue[e].event_type, Catalogue[e].payload).err

\* C1: under any interleaving of two or more pollers, once an event's claim
\* row has status sent or failed, the status never changes afterwards.
C1_TerminalNeverChanges ==
    [][\A e \in EventIds :
         Terminal(adapter_event_state, e)
            => adapter_event_state'[e].status = adapter_event_state[e].status]_vars

\* C2: a claim on an id whose row is sent or failed returns claimed = false
\* and leaves every field of the row (attempts, status, last_error,
\* updated_at) as it was.
C2_TerminalClaimIsNoOp ==
    [][\A p \in Procs :
         (pc[p] = "process" /\ pc'[p] # "process"
            /\ Terminal(adapter_event_state, CurRow(p).id))
         => /\ adapter_event_state'[CurRow(p).id] = adapter_event_state[CurRow(p).id]
            /\ claimed'[p] = FALSE
            /\ attempts'[p] = 0
            /\ pc'[p] = "next"]_vars

\* C2 witness: a claim was refused on a row that is terminal, with a store
\* that never failed.
C2_Witness ==
    \E e \in refused : Terminal(adapter_event_state, e) /\ faultsLeft = 0

\* C3: an event is in progress at no more than one poller at a time: while
\* one poller holds a successful claim and has not recorded the outcome, no
\* other poller holds a successful claim on the same event.
C3_OneInProgress ==
    \A p, q \in running :
        (p # q /\ InProgress(p) /\ InProgress(q)) => CurRow(p).id # CurRow(q).id

\* C4: under a fair poll loop with no store errors, every row of a configured
\* outbox table eventually has claim status sent or failed, also when the
\* table holds more rows than the batch size.
C4_EveryRowConverges ==
    \A e \in EventIds :
        <>((\E t \in DOMAIN outbox : \E i \in 1..Len(outbox[t]) : outbox[t][i].id = e)
              => Terminal(adapter_event_state, e))

\* C5: with a single poller and no store errors, an event that never got a
\* message accepted and has used its retries ends failed with exactly one
\* DeliveryFailed row naming it, and later cycles add no further one.
C5_OneDeliveryFailed ==
    \A e \in EventIds :
        /\ Emitted(e) <= 1
        /\ (StatusOf(e) = statusFailed /\ ~Busy(e)) => Emitted(e) = 1
        /\ (delivered[e] = 0 /\ Len(claimLog[e]) >= maxRetries /\ ~Busy(e))
              => StatusOf(e) = statusFailed
        /\ (e \in refused /\ delivered[e] = 0)
              => (StatusOf(e) = statusFailed /\ Emitted(e) = 1)

\* C5 witness: a row whose every dispatch failed is failed, one DeliveryFailed
\* row names it, and a later cycle has re-read the row.
C5_Witness ==
    /\ maxRetries = 2
    /\ StatusOf(2) = statusFailed /\ delivered[2] = 0 /\ sendCalls[2] = 2
    /\ Emitted(2) = 1 /\ 2 \in refused

\* C6: with a single poller and R = maxRetries, a failure is permanent in the
\* step whose claim returned attempts = R and is a retry after every earlier
\* claim: an event whose dispatch always fails is sent exactly R times.
C6_FailedAtMaxRetries ==
    /\ \A p \in running :
         /\ pc[p] \in {"markFailed", "emit"} => attempts[p] = maxRetries
         /\ pc[p] = "markRetry" => attempts[p] < maxRetries
    /\ \A e \in EventIds :
         /\ StatusOf(e) = statusFailed
               => /\ adapter_event_state[e].attempts = maxRetries
                  /\ TransformErr(e) = Nil => sendCalls[e] = maxRetries
         /\ (StatusOf(e) = statusPending /\ ~Busy(e))
               => /\ adapter_event_state[e].attempts < maxRetries
                  /\ TransformErr(e) = Nil => sendCalls[e] = adapter_event_state[e].attempts

\* C6 witness: with maxRetries = 2 a row was sent twice, failed both times
\* and is marked failed.
C6_Witness ==
    /\ maxRetries = 2 /\ StatusOf(2) = statusFailed
    /\ sendCalls[2] = 2 /\ delivered[2] = 0

\* C7: the successful claims on one id return 1, 2, 3, ... in this order, so
\* no two of them return the same value, and the row's attempts is the number
\* of successful claims so far.
C7_AttemptsCountClaims ==
    \A e \in EventIds :
        /\ \A i \in 1..Len(claimLog[e]) : claimLog[e][i] = i
        /\ e \in DOMAIN adapter_event_state
              => adapter_event_state[e].attempts = Len(claimLog[e])
        /\ e \notin DOMAIN adapter_event_state => claimLog[e] = <<>>

\* C7 witness: two pollers hold successful claims on the same id at once,
\* after an earlier claim.
C7_Witness ==
    \E p, q \in running :
        /\ p # q /\ InProgress(p) /\ InProgress(q)
        /\ CurRow(p).id = CurRow(q).id
        /\ attempts[p] = 2 /\ attempts[q] = 3

\* The row carries a generic payload whose format is not plain, markdown or html.
FormatOutside(e) ==
    LET p == Catalogue[e].payload
    IN  /\ p.wellformed /\ p.room_id # "" /\ p.body # ""
        /\ ToLower(TrimSpace(p.format)) \notin {"plain", "markdown", "html"}

\* C8 (as stated): processing a row whose format is not plain, markdown or
\* html performs no claim and no send.
C8_NoClaimNoSend ==
    \A e \in EventIds :
        FormatOutside(e) => (claimLog[e] = <<>> /\ sendCalls[e] = 0)

\* C8 (amended): such a row is never sent, and processing it claims it: once
\* processEvent has returned for it without a store error, its claim row
\* exists.
C8_ClaimedNeverSent ==
    \A e \in EventIds :
        FormatOutside(e)
           => /\ sendCalls[e] = 0 /\ delivered[e] = 0
              /\ \A p \in running : \A i \in 1..Len(processed[p]) :
                    (processed[p][i].id = e /\ processed[p][i].err = Nil)
                       => (claimLog[e] # <<>> /\ e \in DOMAIN adapter_event_state)

\* C8 witness: the row with format latex was processed and claimed.
C8_Witness ==
    /\ FormatOutside(1)
    /\ \E p \in running : \E i \in 1..Len(processed[p]) : processed[p][i].id = 1
    /\ claimLog[1] # <<>> /\ sendCalls[1] = 0

\* C9: a send to a room that is neither joined nor allow-listed fails with the
\* not-allowed error, calls no join, sends nothing and leaves the joined-room
\* set as it was.
C9_NotAllowedNoJoin ==
    [][\A p \in Procs :
         (pc[p] = "ensureJoined" /\ pc'[p] # "ensureJoined"
            /\ CurMsg(p).RoomID \notin joinedRooms[p]
            /\ CurMsg(p).RoomID \notin allowedRooms)
         => /\ sendErr'[p] = "room is not allow-listed"
            /\ pc'[p] \in {"markRetry", "markFailed"}
            /\ joinedRooms' = joinedRooms
            /\ delivered' = delivered]_vars

\* C9 witness: with an empty allow-list a send has failed with the
\* not-allowed error.
C9_Witness ==
    /\ allowedRooms = {}
    /\ \E p \in running : /\ pc[p] \in {"markRetry", "markFailed"}
                          /\ sendErr[p] = "room is not allow-listed"
                          /\ CurMsg(p).RoomID \notin joinedRooms[p]

Ids(rows) == [i \in 1..Len(rows) |-> rows[i].id]

\* The ids pollOnce hands to processEvent when no query fails, up to table k.
RECURSIVE BatchIds(_)
BatchIds(k) ==
    IF k = 0 THEN <<>>
    ELSE BatchIds(k - 1) \o Ids(Take(TableRows(outboxTables[k]), batchSize))

\* C10: a row whose processing fails, in transform or with any error, does
\* not stop the pass: the rows of every batch are processed in id order and
\* the later tables are polled.
C10_BatchIsolation ==
    \A p \in running :
        /\ pc[p] = "next"
              => Ids(processed[p]) = BatchIds(tableIdx[p] - 1) \o Ids(SubSeq(batch[p], 1, rowIdx[p]))
        /\ (pc[p] = "select" /\ pollErr[p] = Nil)
              => Ids(processed[p]) = BatchIds(Len(outboxTables))

\* C10 witness: the first row of a batch is malformed and its processing
\* returned a store error; the later row and the later table were processed.
C10_Witness ==
    \E p \in running :
        /\ pc[p] = "select" /\ Len(processed[p]) = 3
        /\ TransformErr(processed[p][1].id) # Nil
        /\ processed[p][1].err = "store"

\* The configured table that holds the row with this id.
TableOf(e) ==
    CHOOSE t \in DOMAIN outbox : \E i \in 1..Len(outbox[t]) : outbox[t][i].id = e

\* C11: when the claim or an outcome update of a row returns a store error,
\* the rest of that table's batch is aborted: no later row of the same batch
\* is processed in the cycle.
C11_StoreErrorAbortsBatch ==
    \A p \in running : \A i, j \in 1..Len(processed[p]) :
        (i < j /\ processed[p][i].err = "store")
           => TableOf(processed[p][j].id) # TableOf(processed[p][i].id)

\* C13: with a single poller and no store errors, a row whose payload fails
\* the transform is never dispatched; every claim on it counts one attempt;
\* it is pending with the error recorded while attempts < maxRetries, and
\* failed with one DeliveryFailed row once attempts has reached maxRetries.
C13_MalformedUsesBudget ==
    \A e \in EventIds :
        TransformErr(e) # Nil
           => /\ sendCalls[e] = 0 /\ delivered[e] = 0
              /\ \A p \in running :
                    Cardinality({i \in 1..Len(processed[p]) : processed[p][i].id = e}) <= 1
              /\ e \in DOMAIN adapter_event_state
                    => adapter_event_state[e].attempts = Len(claimLog[e])
              /\ (StatusOf(e) = statusPending /\ ~Busy(e))
                    => /\ adapter_event_state[e].attempts < maxRetries
                       /\ adapter_event_state[e].last_error = TransformErr(e)
                       /\ Emitted(e) = 0
              /\ StatusOf(e) = statusFailed
                    => /\ adapter_event_state[e].attempts = maxRetries
                       /\ adapter_event_state[e].last_error = TransformErr(e)
                       /\ ~Busy(e) => Emitted(e) = 1
              /\ StatusOf(e) # statusSent

\* C13 witness: with maxRetries = 2 the row with format latex was claimed in
\* two cycles, is failed with one DeliveryFailed row and was never sent.
C13_Witness ==
    /\ maxRetries = 2 /\ TransformErr(1) # Nil
    /\ StatusOf(1) = statusFailed /\ claimLog[1] = <<1, 2>>
    /\ Emitted(1) = 1 /\ sendCalls[1] = 0 /\ 1 \in refused

\* C15: with a single poller and no store errors, a row that was dispatched
\* and marked sent is never dispatched again and stays sent, though every
\* later cycle reads it again.
C15_SentNeverResent ==
    [][\A e \in EventIds :
         StatusOf(e) = statusSent
            => /\ delivered[e] = 1
               /\ sendCalls'[e] = sendCalls[e]
               /\ delivered'[e] = delivered[e]
               /\ adapter_event_state'[e] = adapter_event_state[e]]_vars

\* C15 witness: a later cycle has read a sent row again and its claim was
\* refused.
C15_Witness ==
    \E e \in refused : StatusOf(e) = statusSent /\ delivered[e] = 1

\* C17: under any interleaving of two or more pollers with no store errors,
\* no event id is named by more than one DeliveryFailed row.
C17_OneDeliveryFailedPerEvent ==
    \A e \in EventIds : Emitted(e) <= 1

\* C18: a failed batch query ends the cycle: the tables after it are not
\* polled, the loop stays in its select, and the next cycle starts again at
\* the first table.
C18_QueryErrorEndsCycle ==
    [][\A p \in Procs :
         /\ pollErr[p] = "query"
               => /\ pc[p] = "select"
                  /\ Ids(processed[p]) = BatchIds(tableIdx[p] - 1)
         /\ (pc[p] = "pollTable" /\ pollErr'[p] = "query")
               => /\ pc'[p] = "select"
                  /\ tableIdx'[p] = tableIdx[p]
                  /\ processed'[p] = processed[p]
         /\ (pc[p] = "select" /\ pc'[p] # "select")
               => (pc'[p] = "pollTable" /\ tableIdx'[p] = 1)]_vars

\* C18 witness: the query of the first table failed; no row was processed,
\* the second table was not polled, and the loop waits for the next tick.
C18_Witness ==
    \E p \in running :
        /\ pc[p] = "select" /\ pollErr[p] = "query"
        /\ tableIdx[p] = 1 /\ processed[p] = <<>>

\* C16: every event whose claim row is failed eventually has a DeliveryFailed
\* row naming it, also when the insert of that row fails with a store error
\* after MarkFailed succeeded.
C16_FailedGetsDeliveryFailed ==
    \A e \in EventIds : (StatusOf(e) = statusFailed) ~> (Emitted(e) >= 1)

\* C12: App.Stop returns only after the poll loop and the membership-sync
\* task have both stopped, or after the timeout; and when the timeout passes
\* before the poll loop has stopped, App.Stop returns an error.
C12_StopWaitsForBoth ==
    \A p \in Procs :
        appPc[p] = "returned"
           => /\ (pc[p] = "stopped" /\ syncPc[p] = "stopped") \/ stopErr[p] # Nil
              /\ (stopErr[p] # Nil /\ pc[p] # "stopped") => appRet[p] # Nil

\* The payload decodes as a generic message with a room_id or a body that is
\* not blank.
GenericShape(p) ==
    p.generic_ok /\ (TrimSpace(p.room_id) # "" \/ TrimSpace(p.body) # "")

\* C14: the transform uses the generic shape whenever the payload decodes as
\* a generic message with a non-blank room_id or body, whatever the event
\* type: the message is room_id and body as they are and the format trimmed
\* and lowercased, and the only errors are those of the validation of that
\* message.  Otherwise it dispatches on the event type: the two timetable
\* types use matrix_room_id and markdown, every other type is an error.
C14_GenericShapeFirst ==
    \A i \in 1..Len(tOut) :
        LET p == tIn.payload
            r == tOut[i]
            f == ToLower(TrimSpace(p.format))
            timetable == TrimSpace(tIn.event_type)
                            \in {"DailyTimetableAnnounced", "TimetableUpdated"}
        IN  /\ r = tOut[1]
            /\ GenericShape(p)
                  => /\ r.msg = MessagePayload(p.room_id, p.body, f)
                     /\ r.err = (IF p.room_id = "" \/ p.body = "" \/ f = ""
                                 THEN "payload missing required fields"
                                 ELSE IF f \notin {"plain", "markdown", "html"}
                                 THEN "unsupported payload format"
                                 ELSE Nil)
            /\ (~GenericShape(p) /\ ~timetable) => r.err = "payload decode"
            /\ (~GenericShape(p) /\ timetable)
                  => /\ r.err = Nil <=> (p.wellformed /\ TrimSpace(p.matrix_room_id) # "")
                     /\ r.err = Nil => (r.msg.RoomID = p.matrix_room_id
                                        /\ r.msg.Format = "markdown")

\* C14 witness: a DailyTimetableAnnounced row whose payload has room_id, body
\* and matrix_room_id set was transformed as a generic message.
C14_Witness ==
    /\ tIn.event_type = "DailyTimetableAnnounced"
    /\ tIn.payload.room_id = "!a" /\ tIn.payload.body = "hello"
    /\ tIn.payload.format = " HTML " /\ tIn.payload.matrix_room_id = "!s"
    /\ Len(tOut) = 2
    /\ tOut[1] = [err |-> Nil, msg |-> MessagePayload("!a", "hello", "html")]

\* C19: once the cancellation signal has fired (the context is cancelled or
\* Stop was called) the poll loop claims no row and dispatches no row that
\* was not in progress, and starts no further poll cycle.
C19_NoNewWorkAfterCancel ==
    [][\A p \in Procs :
         (ctxDone[p] \/ stopCh[p])
            => /\ pc[p] = "process"
                    => /\ adapter_event_state' = adapter_event_state
                       /\ claimLog' = claimLog
                       /\ pc'[p] \notin {"ensureJoined", "markRetry", "markFailed"}
               /\ ~(pc[p] = "select" /\ pc'[p] = "pollTable")]_vars

\* C20: the joined-room set of a process holds only rooms of the startup
\* snapshot and allow-listed rooms; a join is attempted only for an
\* allow-listed room, on the send path and on the invite path; a membership
\* event that is not an invite, is for another identity or is for a room
\* that is not allow-listed leads to no join and leaves the set as it was.
C20_JoinedWithinAllowList ==
    [][\A p \in Procs :
         /\ joinedRooms[p] \subseteq (PlatformJoined \cup allowedRooms)
         /\ pc[p] = "join" => CurMsg(p).RoomID \in allowedRooms
         /\ syncPc[p] = "join"
               => /\ memberEvt[p].room \in allowedRooms
                  /\ memberEvt[p].membership = "invite"
                  /\ memberEvt[p].state_key = UserID
         /\ memberEventsLeft'[p] # memberEventsLeft[p] => joinedRooms' = joinedRooms
         /\ joinedRooms'[p] # joinedRooms[p]
               => (pc[p] = "join" \/ syncPc[p] \in {"load", "join"})]_vars

\* C20 witness: the snapshot was loaded and an invite to the allow-listed
\* room was joined before any send to it.
C20_Witness ==
    \E p \in running :
        /\ joinedRooms[p] = {"!a", "!s"} /\ allowedRooms = {"!a"}
        /\ memberEventsLeft[p] = 0 /\ syncPc[p] = "sync" /\ sendCalls[2] = 0

\* C21: when the join that a send attempts fails, the send returns the error,
\* nothing is sent and the room is not recorded as joined; when it succeeds
\* the room is in the joined-room set before the message is sent; and a
\* failed join on the invite path does not record the room either.
C21_JoinFailureRecordsNothing ==
    [][\A p \in Procs :
         /\ (pc[p] = "join" /\ pc'[p] # "join")
               => /\ delivered' = delivered
                  /\ \/ /\ pc'[p] = "sendEvent"
                        /\ CurMsg(p).RoomID \in joinedRooms'[p]
                     \/ /\ pc'[p] \in {"markRetry", "markFailed"}
                        /\ sendErr'[p] = "join failed"
                        /\ joinedRooms' = joinedRooms
         /\ pc[p] = "sendEvent" => CurMsg(p).RoomID \in joinedRooms[p]
         /\ (pc[p] \in {"markRetry", "markFailed"} /\ sendErr[p] = "join failed")
               => delivered' = delivered
         /\ (syncPc[p] = "join" /\ syncPc'[p] = "sync")
               => memberEvt[p].room \in joinedRooms'[p]
         /\ (syncPc[p] = "join" /\ syncPc'[p] = "joinFailed")
               => joinedRooms' = joinedRooms]_vars

\* C21 witness: a send's join failed and an invite's join failed, and the
\* allow-listed room is still not recorded as joined.
C21_Witness ==
    \E p \in running :
        /\ pc[p] \in {"markRetry", "markFailed"} /\ sendErr[p] = "join failed"
        /\ syncPc[p] = "joinFailed"
        /\ "!a" \notin joinedRooms[p] /\ delivered[2] = 0

\* C22: MarkSent, MarkRetry and MarkFailed leave attempts as it is and create
\* no row: MarkSent writes status sent and no last_error, MarkRetry status
\* pending and the given text, MarkFailed status failed and the given text;
\* on an id without a row they change nothing; ClaimEvent on a row that is
\* not terminal leaves last_error as it is.
C22_OutcomeUpdatesFrame ==
    \A i \in 1..Len(repoOut) :
        LET st == repoIn.st
            id == repoIn.id
            op == repoIn.op
            out == repoOut[i].state
        IN  /\ op \in {"MarkSent", "MarkRetry", "MarkFailed"}
                  => /\ DOMAIN out = DOMAIN st
                     /\ \A e \in DOMAIN st : e # id => out[e] = st[e]
                     /\ id \notin DOMAIN st => out = st
                     /\ id \in DOMAIN st
                           => /\ out[id].attempts = st[id].attempts
                              /\ out[id].status =
                                    (CASE op = "MarkSent" -> statusSent
                                       [] op = "MarkRetry" -> statusPending
                                       [] op = "MarkFailed" -> statusFailed)
                              /\ out[id].last_error =
                                    (IF op = "MarkSent" THEN NULL ELSE repoIn.text)
            /\ (op = "ClaimEvent" /\ id \in DOMAIN st
                  /\ st[id].status \notin {statusSent, statusFailed})
                  => /\ out[id].last_error = st[id].last_error
                     /\ out[id].attempts = st[id].attempts + 1

\* C22 witness: MarkFailed ran on an id without a row beside a row of another
\* id, and the table is as it was.
C22_Witness ==
    /\ repoIn.op = "MarkFailed" /\ repoIn.id = 2
    /\ DOMAIN repoIn.st = {1} /\ repoIn.st[1].last_error = "old error"
    /\ Len(repoOut) = 1 /\ repoOut[1].state = repoIn.st

\* C23: a DeliveryFailed row is emitted only for an event the platform never
\* accepted: no event has both an accepted message and a DeliveryFailed row,
\* also when MarkSent fails with a store error after the send.
C23_NoDeliveryFailedAfterSend ==
    \A e \in EventIds : ~(delivered[e] >= 1 /\ Emitted(e) >= 1)

\* C24: no dispatch is attempted before the startup snapshot of joined rooms
\* is loaded: a send to a room the session belonged to at startup never fails
\* with the not-allowed error.
C24_SnapshotBeforeDispatch ==
    \A p \in running :
        /\ pc[p] \in {"ensureJoined", "join", "sendEvent"} => syncPc[p] # "load"
        /\ (pc[p] \in {"markRetry", "markFailed"}
              /\ sendErr[p] = "room is not allow-listed")
              => CurMsg(p).RoomID \notin PlatformJoined

\* C25: no more DeliveryFailed rows are emitted than the producers wrote
\* events: when the adapter's own outbox is one of the polled tables,
\* processing a DeliveryFailed row leads to no further DeliveryFailed row,
\* so every such row names a producer's event.
C25_NoDeliveryFailedCascade ==
    /\ Len(adapter_outbox)
          <= Cardinality({e \in EventIds : \E t \in DOMAIN outbox :
                                              \E i \in 1..Len(outbox[t]) : outbox[t][i].id = e})
    /\ \A i \in 1..Len(adapter_outbox) :
          adapter_outbox[i].payload.original_event_id \in EventIds

====
